---- MODULE Spec2Model ----
(***************************************************************************)
(* Model of src/clusterer.py: class Clusterer.                             *)
(*                                                                         *)
(* A Clusterer is constructed with three tables (cocktails, ingredients,   *)
(* cocktails_and_ingredients).  The model covers the two table builders,   *)
(* generate_cocktails_and_ingredients_matrix_with_volumes (lines 22-34)    *)
(* and generate_table_with_cocktails_and_their_main_ingr_type (lines       *)
(* 36-71).  transform_matrix and the clustering calls (lines 94-136) hand  *)
(* their arguments to sklearn, which decides what they return, whether     *)
(* they raise and whether the matrix is copied; they are not modelled.     *)
(* A table is a sequence of rows (records), in row order.                  *)
(*                                                                         *)
(* Units and encodings                                                     *)
(*   - volume_oz is an optional number in hundredths of an ounce:          *)
(*     <<>> is a missing value (NaN), <<v>> the number v/100.              *)
(*   - a matrix cell is <<>> (NaN) or a reduced fraction <<n, d>> of       *)
(*     hundredths of an ounce, so that the mean of a group is exact.       *)
(*   - a missing string (type, generalized_type, primary_alcohol_type)     *)
(*     is the value NA.                                                    *)
(*   - key columns (name, cocktail_name, ingredient_name) never hold a     *)
(*     missing value: they are the records' identities.                    *)
(***************************************************************************)
EXTENDS Integers, Sequences, FiniteSets, TLC

VARIABLES cocktails, ingredients, cocktails_and_ingredients, op, ret

vars == <<cocktails, ingredients, cocktails_and_ingredients, op, ret>>

(***************************************************************************)
(* Bounds and input domains                                                *)
(***************************************************************************)
\* the most rows of cocktails_and_ingredients
MaxRows == 3

NA == "NaN"
Missing == <<>>
Some(v) == <<v>>

\* 0.01, the value of fillna at line 28, in hundredths of an ounce
Epsilon == 1

\* Python's order on the names used as keys (str comparison)
NameOrder == <<"Gin", "Martini", "Negroni", "Rum", "Tonic">>

Rank(s) == CHOOSE k \in 1..Len(NameOrder) : NameOrder[k] = s

Volumes == {Missing, Some(100), Some(200)}

\* the (cocktail_name, ingredient_name) pairs a composition row may hold
CompositionPairs ==
    {<<"Martini", "Gin">>, <<"Martini", "Rum">>, <<"Martini", "Tonic">>,
     <<"Negroni", "Gin">>}

CompositionRows ==
    {[cocktail_name |-> p[1], ingredient_name |-> p[2], volume_oz |-> v] :
        p \in CompositionPairs, v \in Volumes}

Ingr(n, t, g) == [name |-> n, type |-> t, generalized_type |-> g]

\* ingredient tables: names are unique within a table
IngredientTables ==
    { << Ingr("Gin", "Gin", "Alcoholic"), Ingr("Rum", "Rum", "Alcoholic"),
         Ingr("Tonic", "Mixer", "Non-alcoholic") >>,
      << Ingr("Tonic", "Mixer", "Non-alcoholic"), Ingr("Rum", "Rum", "Alcoholic"),
         Ingr("Gin", "Gin", "Alcoholic") >>,
      << Ingr("Rum", NA, "Alcoholic"), Ingr("Tonic", "Mixer", "Non-alcoholic") >> }

\* cocktail tables: names are unique within a table
CocktailTables ==
    { << [name |-> "Negroni", abv |-> Missing] >>,
      << [name |-> "Negroni", abv |-> Missing],
         [name |-> "Martini", abv |-> Some(30)] >> }

SeqsUpTo(S, n) == UNION {[1..k -> S] : k \in 0..n}

(***************************************************************************)
(* Helpers on sequences and numbers                                        *)
(***************************************************************************)
RECURSIVE Gcd(_, _)
Gcd(a, b) == IF b = 0 THEN a ELSE Gcd(b, a % b)

\* the fraction n/d, reduced; d > 0, n >= 0
Frac(n, d) == LET g == Gcd(n, d) IN <<n \div g, d \div g>>

Zero == Frac(0, 1)

RECURSIVE SumSeq(_)
SumSeq(s) == IF s = <<>> THEN 0 ELSE s[1] + SumSeq(Tail(s))

\* insertion of index x into the sequence s of indices sorted by key, after
\* every index whose key is not greater: the step of a stable sort
RECURSIVE InsertSorted(_, _, _)
InsertSorted(x, s, key) ==
    IF s = <<>> THEN <<x>>
    ELSE IF key[x] < key[s[1]] THEN <<x>> \o s
         ELSE <<s[1]>> \o InsertSorted(x, Tail(s), key)

\* the indices 1..n of the sequence key of integers, sorted stably by
\* ascending key
RECURSIVE SortedIndices(_, _)
SortedIndices(key, n) ==
    IF n = 0 THEN <<>>
    ELSE InsertSorted(n, SortedIndices(key, n - 1), key)

\* the rows of df in the order of the indices idx
Take(df, idx) == [i \in DOMAIN idx |-> df[idx[i]]]

\* the names of S as a sequence in Python's str order
SortedNames(S) == SelectSeq(NameOrder, LAMBDA n : n \in S)

Range(s) == {s[i] : i \in DOMAIN s}

(***************************************************************************)
(* generate_cocktails_and_ingredients_matrix_with_volumes, lines 22-34     *)
(***************************************************************************)
\* variant of Fillna: the missing volumes filled with 0
FillnaZero(df) ==
    [i \in DOMAIN df |->
        [df[i] EXCEPT !.volume_oz = IF @ = Missing THEN Some(0) ELSE @]]

\* line 28: [['cocktail_name', 'ingredient_name', 'volume_oz']].fillna(0.01),
\* a new frame; the two key columns hold no missing value, so the values
\* filled are the missing volumes
Fillna(df) ==
    [i \in DOMAIN df |->
        [df[i] EXCEPT !.volume_oz = IF @ = Missing THEN Some(Epsilon) ELSE @]]

\* the volumes of the rows of one (cocktail, ingredient) group, in row order
GroupValues(df, c, n) ==
    LET rows == SelectSeq(df, LAMBDA r : r.cocktail_name = c /\ r.ingredient_name = n)
    IN  [i \in DOMAIN rows |-> rows[i].volume_oz[1]]

\* variant of Aggregate: aggfunc='last'
AggregateLast(vals) == Frac(vals[Len(vals)], 1)

\* pivot_table's default aggfunc, the mean of the group (lines 30-33)
Aggregate(vals) == Frac(SumSeq(vals), Len(vals))

\* variant of FillValue: no fill_value
FillValueNone(cell) == cell

\* fill_value=0 (line 33): a cell without a value holds 0
FillValue(cell) == IF cell = Missing THEN Zero ELSE cell

\* lines 30-33: pivot_table(index='cocktail_name', columns='ingredient_name',
\* values='volume_oz', fill_value=0) on a frame without missing values: one
\* row per cocktail and one column per ingredient, both sorted, the cell of a
\* group its aggregate and every other cell the fill value
PivotTable(df) ==
    LET groups == {<<r.cocktail_name, r.ingredient_name>> : r \in Range(df)}
        index == SortedNames({g[1] : g \in groups})
        columns == SortedNames({g[2] : g \in groups})
    IN  [index |-> index,
         columns |-> columns,
         cell |-> [c \in Range(index), n \in Range(columns) |->
                     FillValue(IF <<c, n>> \in groups
                               THEN Aggregate(GroupValues(df, c, n))
                               ELSE Missing)]]

\* the value the method returns (line 34)
VolumeMatrix(comps) == PivotTable(Fillna(comps))

(***************************************************************************)
(* generate_table_with_cocktails_and_their_main_ingr_type, lines 36-71     *)
(***************************************************************************)
RECURSIVE Concat(_)
Concat(ss) == IF ss = <<>> THEN <<>> ELSE ss[1] \o Concat(Tail(ss))

Indices(df) == [i \in 1..Len(df) |-> i]

JoinRow(r, abv) ==
    [cocktail_name |-> r.cocktail_name, ingredient_name |-> r.ingredient_name,
     volume_oz |-> r.volume_oz, abv |-> abv]

\* variant of JoinAbv: how='inner'
JoinAbvInner(comps, cks) ==
    Concat([i \in DOMAIN comps |->
        LET m == SelectSeq(cks, LAMBDA k : k.name = comps[i].cocktail_name)
        IN  [j \in DOMAIN m |-> JoinRow(comps[i], m[j].abv)]])

\* lines 43-46: set_index('cocktail_name').join(cocktails.set_index('name')
\* [['abv']], how='left').reset_index(): every composition row is kept, in
\* order, with the abv of its cocktail, missing when no cocktail matches
JoinAbv(comps, cks) ==
    Concat([i \in DOMAIN comps |->
        LET m == SelectSeq(cks, LAMBDA k : k.name = comps[i].cocktail_name)
        IN  IF m = <<>> THEN <<JoinRow(comps[i], Missing)>>
            ELSE [j \in DOMAIN m |-> JoinRow(comps[i], m[j].abv)]])

MergeRow(g, r) ==
    [name |-> g.name, type |-> g.type, generalized_type |-> g.generalized_type,
     cocktail_name |-> r.cocktail_name, ingredient_name |-> r.ingredient_name,
     volume_oz |-> r.volume_oz, abv |-> r.abv]

\* lines 48-50: ingredients[['name', 'type', 'generalized_type']].merge(
\* result_df, left_on='name', right_on='ingredient_name', how='inner'): the
\* matching pairs, in the order of the left keys and then of the right rows
MergeIngredients(ingr, df) ==
    Concat([i \in DOMAIN ingr |->
        LET m == SelectSeq(df, LAMBDA r : r.ingredient_name = ingr[i].name)
        IN  [j \in DOMAIN m |-> MergeRow(ingr[i], m[j])]])

\* line 52: dropna(subset=['type'], inplace=True), on the merged frame
DropnaType(df) == SelectSeq(df, LAMBDA r : r.type # NA)

\* line 53: drop(columns=['name'], inplace=True), on the merged frame
DropName(df) ==
    [i \in DOMAIN df |->
        [type |-> df[i].type, generalized_type |-> df[i].generalized_type,
         cocktail_name |-> df[i].cocktail_name,
         ingredient_name |-> df[i].ingredient_name,
         volume_oz |-> df[i].volume_oz, abv |-> df[i].abv]]

\* the frame result_df refers to after line 53
JoinedRows(cks, ingr, comps) ==
    DropName(DropnaType(MergeIngredients(ingr, JoinAbv(comps, cks))))

\* line 55: sort_values(by='cocktail_name', ascending=True, inplace=True) with
\* the default kind='quicksort', which is not a stable sort: the rows come out
\* in ascending cocktail_name, rows of one cocktail in an order the sort
\* algorithm picks
SortValuesCocktail(df) ==
    LET n == Len(df)
        orders == {q \in [1..n -> 1..n] :
                      /\ \A i, j \in 1..n : i # j => q[i] # q[j]
                      /\ \A i, j \in 1..n : i < j =>
                            Rank(df[q[i]].cocktail_name) <= Rank(df[q[j]].cocktail_name)}
    IN  {Take(df, q) : q \in orders}

\* variant of LocAlcoholic: no filter on generalized_type
LocAll(df) == df

\* line 58: result_df.loc[result_df['generalized_type'] == "Alcoholic"]
LocAlcoholic(df) == SelectSeq(df, LAMBDA r : r.generalized_type = "Alcoholic")

\* a bound above every volume of df
VolumeTop(df) ==
    1 + SumSeq([i \in DOMAIN df |->
                  IF df[i].volume_oz = Missing THEN 0 ELSE df[i].volume_oz[1]])

\* the sort key of (cocktail_name ascending, volume_oz descending), missing
\* volumes last (na_position='last')
SortKey(df) ==
    LET top == VolumeTop(df)
    IN  [i \in DOMAIN df |->
            Rank(df[i].cocktail_name) * (2 * top)
            + (IF df[i].volume_oz = Missing THEN top
               ELSE top - 1 - df[i].volume_oz[1])]

\* variant of SortValuesCocktailVolume: a sort that reverses tied rows
SortValuesCocktailVolumeReversed(df) ==
    LET rev == [i \in DOMAIN df |-> df[Len(df) + 1 - i]]
    IN  Take(rev, SortedIndices(SortKey(rev), Len(rev)))

\* line 59: sort_values(by=['cocktail_name', 'volume_oz'], ascending=[True,
\* False]): with several keys the sort is a lexsort, which is stable
SortValuesCocktailVolume(df) == Take(df, SortedIndices(SortKey(df), Len(df)))

\* line 60: drop_duplicates(subset=['cocktail_name'], keep='first')
DropDuplicatesCocktail(df) ==
    Take(df, SelectSeq(Indices(df), LAMBDA i :
                \A j \in 1..(i - 1) : df[j].cocktail_name # df[i].cocktail_name))

\* lines 57-64: the first Alcoholic row of every cocktail in the order
\* (cocktail_name, volume_oz descending), as (cocktail_name,
\* primary_alcohol_type)
MaxVolumeType(df) ==
    LET first == DropDuplicatesCocktail(SortValuesCocktailVolume(LocAlcoholic(df)))
    IN  [i \in DOMAIN first |->
            [cocktail_name |-> first[i].cocktail_name,
             primary_alcohol_type |-> first[i].type]]

\* lines 66-68: merge(max_volume_type_df, on='cocktail_name', how='left') and
\* the columns ['primary_alcohol_type', 'cocktail_name']; index is the row's
\* label in the merged frame (0, 1, ...); a cocktail without a row in
\* max_volume_type_df gets a missing primary_alcohol_type
MergePrimary(df, mvt) ==
    [i \in DOMAIN df |->
        LET m == SelectSeq(mvt, LAMBDA r : r.cocktail_name = df[i].cocktail_name)
        IN  [index |-> i - 1,
             primary_alcohol_type |->
                 IF m = <<>> THEN NA ELSE m[1].primary_alcohol_type,
             cocktail_name |-> df[i].cocktail_name]]

\* variant of DropDuplicates: line 69 left out
DropDuplicatesNone(df) == df

\* line 69: drop_duplicates(inplace=True) over the two columns, keep='first'
DropDuplicates(df) ==
    Take(df, SelectSeq(Indices(df), LAMBDA i :
                \A j \in 1..(i - 1) :
                    \/ df[j].cocktail_name # df[i].cocktail_name
                    \/ df[j].primary_alcohol_type # df[i].primary_alcohol_type))

\* lines 57-71 on the frame sorted at line 55: the returned table, whose
\* column index (line 70, reset_index) holds the labels of the merged frame
PrimaryTable(sorted) == DropDuplicates(MergePrimary(sorted, MaxVolumeType(sorted)))

(***************************************************************************)
(* State machine: one call of a builder on a freshly constructed           *)
(* Clusterer; op is the builder called and ret what it returned.           *)
(***************************************************************************)
NoValue == [kind |-> "none"]

\* __init__, lines 17-20: the Clusterer keeps the three tables it is given
Init ==
    /\ cocktails \in CocktailTables
    /\ ingredients \in IngredientTables
    /\ cocktails_and_ingredients \in SeqsUpTo(CompositionRows, MaxRows)
    /\ op = "init"
    /\ ret = NoValue

generate_cocktails_and_ingredients_matrix_with_volumes ==
    /\ op' = "generate_cocktails_and_ingredients_matrix_with_volumes"
    /\ ret' = [kind |-> "matrix", value |-> VolumeMatrix(cocktails_and_ingredients)]
    /\ UNCHANGED <<cocktails, ingredients, cocktails_and_ingredients>>

\* result_df is the method's local frame after line 55
generate_table_with_cocktails_and_their_main_ingr_type ==
    /\ \E sorted \in SortValuesCocktail(
                        JoinedRows(cocktails, ingredients, cocktails_and_ingredients)) :
          ret' = [kind |-> "table", value |-> PrimaryTable(sorted), result_df |-> sorted]
    /\ op' = "generate_table_with_cocktails_and_their_main_ingr_type"
    /\ UNCHANGED <<cocktails, ingredients, cocktails_and_ingredients>>

\* each builder is applied once to every input
Next ==
    \/ op = "init" /\ generate_cocktails_and_ingredients_matrix_with_volumes
    \/ op = "init" /\ generate_table_with_cocktails_and_their_main_ingr_type

Spec == Init /\ [][Next]_vars

(***************************************************************************)
(* Properties.  The builders' properties are stated on the inputs the      *)
(* Clusterer holds and on what the call returned.                          *)
(***************************************************************************)
Comps == cocktails_and_ingredients

\* the composition rows of the pair (c, n)
PairRows(c, n) ==
    {i \in DOMAIN Comps : Comps[i].cocktail_name = c /\ Comps[i].ingredient_name = n}

\* the volume of composition row i in the matrix, in hundredths of an ounce
Substituted(i) ==
    IF Comps[i].volume_oz = Missing THEN Epsilon ELSE Comps[i].volume_oz[1]

RECURSIVE SumOver(_)
SumOver(S) ==
    IF S = {} THEN 0
    ELSE LET i == CHOOSE x \in S : TRUE IN Substituted(i) + SumOver(S \ {i})

Last(S) == CHOOSE i \in S : \A j \in S : j <= i

First(S) == CHOOSE i \in S : \A j \in S : i <= j

IsMatrix == ret.kind = "matrix"

IsTable == ret.kind = "table"

\* C1: the matrix has exactly one row for each cocktail_name of the
\* compositions and no other row, and a cell whose (cocktail, ingredient)
\* pair has no composition row holds the number 0, not a missing value.
C1_OneRowPerCocktailAbsentPairsZero ==
    IsMatrix =>
        LET m == ret.value
        IN  /\ Range(m.index) = {Comps[i].cocktail_name : i \in DOMAIN Comps}
            /\ \A i, j \in DOMAIN m.index : i # j => m.index[i] # m.index[j]
            /\ \A c \in Range(m.index), n \in Range(m.columns) :
                  PairRows(c, n) = {} => m.cell[c, n] = <<0, 1>>

C1_Witness ==
    /\ IsMatrix
    /\ Len(ret.value.index) = 2
    /\ \E c \in Range(ret.value.index), n \in Range(ret.value.columns) :
          PairRows(c, n) = {} /\ ret.value.cell[c, n] = <<0, 1>>

\* C2: a row whose volume_oz is missing counts as 0.01: when it is the only
\* row of its pair the cell holds 0.01 (so not 0), and no cell of the matrix
\* is a missing value.
C2_MissingVolumeIsEpsilon ==
    IsMatrix =>
        LET m == ret.value
        IN  /\ \A i \in DOMAIN Comps :
                  (/\ Comps[i].volume_oz = Missing
                   /\ PairRows(Comps[i].cocktail_name, Comps[i].ingredient_name) = {i})
                  => /\ Comps[i].cocktail_name \in Range(m.index)
                     /\ Comps[i].ingredient_name \in Range(m.columns)
                     /\ m.cell[Comps[i].cocktail_name, Comps[i].ingredient_name]
                            = <<Epsilon, 1>>
            /\ \A c \in Range(m.index), n \in Range(m.columns) : m.cell[c, n] # Missing

C2_Witness ==
    /\ IsMatrix
    /\ \E i \in DOMAIN Comps :
          /\ Comps[i].volume_oz = Missing
          /\ PairRows(Comps[i].cocktail_name, Comps[i].ingredient_name) = {i}
          /\ ret.value.cell[Comps[i].cocktail_name, Comps[i].ingredient_name] = <<1, 1>>

\* C8 as claimed: the cell of a pair holds the volume of the last row of that
\* pair in input order (after the substitution of 0.01).
C8_LastWins ==
    IsMatrix =>
        \A c \in Range(ret.value.index), n \in Range(ret.value.columns) :
            PairRows(c, n) # {} =>
                ret.value.cell[c, n] = <<Substituted(Last(PairRows(c, n))), 1>>

\* C8 as amended: the cell of a pair holds the arithmetic mean of the volumes
\* of all the rows of that pair (after the substitution of 0.01): the cell
\* n/d satisfies n * (number of rows) = d * (sum of the volumes).
C8_MeanOfDuplicates ==
    IsMatrix =>
        \A c \in Range(ret.value.index), n \in Range(ret.value.columns) :
            PairRows(c, n) # {} =>
                /\ ret.value.cell[c, n] # Missing
                /\ ret.value.cell[c, n][2] > 0
                /\ ret.value.cell[c, n][1] * Cardinality(PairRows(c, n))
                      = ret.value.cell[c, n][2] * SumOver(PairRows(c, n))

\* several rows of one pair with different volumes, the last of them not the
\* mean
C8_Witness ==
    /\ IsMatrix
    /\ \E c \in Range(ret.value.index), n \in Range(ret.value.columns) :
          /\ Cardinality(PairRows(c, n)) >= 2
          /\ ret.value.cell[c, n] # <<Substituted(Last(PairRows(c, n))), 1>>
          /\ ret.value.cell[c, n] # <<Substituted(First(PairRows(c, n))), 1>>
          /\ ret.value.cell[c, n] # <<SumOver(PairRows(c, n)), 1>>

\* the ingredient record a composition row joins, when there is one
Matched(i) == \E g \in Range(ingredients) : g.name = Comps[i].ingredient_name

IngredientOf(i) == CHOOSE g \in Range(ingredients) : g.name = Comps[i].ingredient_name

CocktailNames == {Comps[i].cocktail_name : i \in DOMAIN Comps}

\* the composition rows of cocktail c joined to an ingredient of known type
TypedRows(c) ==
    {i \in DOMAIN Comps : /\ Comps[i].cocktail_name = c
                          /\ Matched(i)
                          /\ IngredientOf(i).type # NA}

\* those of them whose ingredient is Alcoholic
AlcoholicRows(c) ==
    {i \in TypedRows(c) : IngredientOf(i).generalized_type = "Alcoholic"}

\* a volume as a number to compare; a missing volume is below every number
Vol(v) == IF v = Missing THEN -1 ELSE v[1]

\* the rows of the returned table that name cocktail c
TableRows(c) == {k \in DOMAIN ret.value : ret.value[k].cocktail_name = c}

\* C3: a cocktail with at least one joined Alcoholic ingredient of known type
\* is reported with the type of an Alcoholic ingredient of it whose volume_oz
\* no other Alcoholic ingredient of it exceeds; the non-Alcoholic rows and
\* their volumes play no part.
C3_PrimaryIsLargestAlcoholic ==
    IsTable =>
        \A c \in CocktailNames :
            AlcoholicRows(c) # {} =>
                /\ TableRows(c) # {}
                /\ \A k \in TableRows(c) :
                      \E i \in AlcoholicRows(c) :
                          /\ ret.value[k].primary_alcohol_type = IngredientOf(i).type
                          /\ \A j \in AlcoholicRows(c) :
                                Vol(Comps[j].volume_oz) <= Vol(Comps[i].volume_oz)

\* an Alcoholic ingredient is reported although a non-Alcoholic ingredient of
\* the cocktail has a larger volume
C3_Witness ==
    /\ IsTable
    /\ \E c \in CocktailNames :
          /\ AlcoholicRows(c) # {}
          /\ TableRows(c) # {}
          /\ \E n \in TypedRows(c) \ AlcoholicRows(c) :
                \A i \in AlcoholicRows(c) :
                    /\ Comps[i].volume_oz # Missing
                    /\ Vol(Comps[n].volume_oz) > Vol(Comps[i].volume_oz)
          /\ \E i \in AlcoholicRows(c) : \A k \in TableRows(c) :
                ret.value[k].primary_alcohol_type = IngredientOf(i).type

\* C4 as claimed: rows with an unmatched ingredient_name and rows with an
\* unmatched cocktail_name are both dropped, so every cocktail of the
\* returned table is in the cocktail table and has a row whose ingredient is
\* in the ingredient table.
C4_BothUnmatchedDropped ==
    IsTable =>
        \A k \in DOMAIN ret.value :
            /\ \E i \in DOMAIN Comps :
                  Comps[i].cocktail_name = ret.value[k].cocktail_name /\ Matched(i)
            /\ \E ck \in Range(cocktails) : ck.name = ret.value[k].cocktail_name

\* C4 as amended: a row whose ingredient_name is not in the ingredient table
\* is dropped, so a cocktail of the returned table has a row whose ingredient
\* is in the ingredient table; a row whose cocktail_name is not in the
\* cocktail table is kept, so every cocktail with a row joined to an
\* ingredient of known type is in the returned table, whether or not the
\* cocktail table names it.
C4_UnmatchedIngredientDroppedCocktailKept ==
    IsTable =>
        /\ \A k \in DOMAIN ret.value :
              \E i \in DOMAIN Comps :
                  Comps[i].cocktail_name = ret.value[k].cocktail_name /\ Matched(i)
        /\ \A c \in CocktailNames : TypedRows(c) # {} => TableRows(c) # {}

\* a cocktail all of whose rows have an unmatched ingredient is absent, and a
\* cocktail the cocktail table does not name is present
C4_Witness ==
    /\ IsTable
    /\ \E c \in CocktailNames :
          /\ \A i \in DOMAIN Comps : Comps[i].cocktail_name = c => ~Matched(i)
          /\ TableRows(c) = {}
    /\ \E c \in CocktailNames :
          /\ \A ck \in Range(cocktails) : ck.name # c
          /\ TableRows(c) # {}

\* the Alcoholic rows of cocktail c in result_df, the frame before the sort
\* by (cocktail_name, volume_oz descending)
AlcoholicBeforeSort(c) ==
    {i \in DOMAIN ret.result_df :
        /\ ret.result_df[i].cocktail_name = c
        /\ ret.result_df[i].generalized_type = "Alcoholic"}

\* those of them with the largest volume_oz
LargestBeforeSort(c) ==
    {i \in AlcoholicBeforeSort(c) :
        \A j \in AlcoholicBeforeSort(c) :
            Vol(ret.result_df[j].volume_oz) <= Vol(ret.result_df[i].volume_oz)}

\* C9: among the Alcoholic rows of a cocktail that share the largest
\* volume_oz, the one reported is the first in the order the rows have before
\* the sort by (cocktail_name ascending, volume_oz descending): that sort
\* keeps tied rows in their relative order.
C9_TieFirstBeforeSort ==
    IsTable =>
        \A c \in CocktailNames :
            AlcoholicBeforeSort(c) # {} =>
                \A k \in TableRows(c) :
                    ret.value[k].primary_alcohol_type
                        = ret.result_df[First(LargestBeforeSort(c))].type

\* two Alcoholic rows of different type tie for the largest measured volume
C9_Witness ==
    /\ IsTable
    /\ \E c \in CocktailNames :
          /\ TableRows(c) # {}
          /\ \E i, j \in LargestBeforeSort(c) :
                /\ i < j
                /\ ret.result_df[i].volume_oz # Missing
                /\ ret.result_df[i].type # ret.result_df[j].type
                /\ \A k \in TableRows(c) :
                      ret.value[k].primary_alcohol_type = ret.result_df[i].type

\* C10: the returned table has at most one row per cocktail_name, every
\* cocktail_name of it occurs in the compositions, and a cocktail with joined
\* ingredients of known type, none of them Alcoholic, has exactly one row,
\* whose primary_alcohol_type is missing.
C10_TableIsFunctionOfCocktail ==
    IsTable =>
        /\ \A k, l \in DOMAIN ret.value :
              ret.value[k].cocktail_name = ret.value[l].cocktail_name => k = l
        /\ \A k \in DOMAIN ret.value : ret.value[k].cocktail_name \in CocktailNames
        /\ \A c \in CocktailNames :
              (TypedRows(c) # {} /\ AlcoholicRows(c) = {}) =>
                  /\ Cardinality(TableRows(c)) = 1
                  /\ \A k \in TableRows(c) : ret.value[k].primary_alcohol_type = NA

\* a cocktail with several joined rows, none Alcoholic, reported once
C10_Witness ==
    /\ IsTable
    /\ \E c \in CocktailNames :
          /\ Cardinality(TypedRows(c)) >= 2
          /\ AlcoholicRows(c) = {}
          /\ Cardinality(TableRows(c)) = 1
          /\ \A k \in TableRows(c) : ret.value[k].primary_alcohol_type = NA
====
